---------------------------- MODULE Spec2Model ----------------------------
(***************************************************************************)
(* Grid9 coordinate compression (rust/src): the codec encode/decode, the   *)
(* validator/formatter and the batch utilities, as a state machine whose   *)
(* actions are the calls of the public API on inputs drawn from bounded    *)
(* sets.                                                                   *)
(*                                                                         *)
(* f64 values are modelled exactly.  A finite f64 is a sign and a          *)
(* magnitude; the magnitude is a natural number of W base-256 limbs (least *)
(* significant first) counting units of 2^-(8*FracLimbs).  Every f64       *)
(* operation computes the exact result on the limbs and then rounds it to  *)
(* 53 significant bits, ties to even, as IEEE-754 does.  The model covers  *)
(* the f64 values that are multiples of 2^-(8*FracLimbs) and below 2^31;   *)
(* NaN is a value of its own.  u64 values are vectors of 64 bits.          *)
(***************************************************************************)
EXTENDS Integers, Sequences, FiniteSets, TLC

\* ------------------------------------------------------------------ bounds

\* Limbs (bytes) after the binary point of the fixed-point carrier of f64.
FracLimbs == 15

\* Longest list handed to batch_encode / batch_decode.
MaxBatch == 2

\* Most edits applied to a token to make an input string of decode.
MaxEdits == 2

\* The largest max_results find_nearby is called with.
MaxResults == 2

\* --------------------------------------------------- natural numbers (limbs)

\* A limb is a byte; five limbs hold the integer part.
Base == 2^8
W == FracLimbs + 5
Limbs == 1..W

\* The sequence f as a tuple of n values (the same value: TLC then holds the
\* limbs themselves, not the expression that yields them).
Tup(f, n) == SubSeq(f, 1, n)

\* e, with the value v computed before it: TLC computes a definition where
\* it is first used, inside the evaluation going on there, and a long chain
\* of definitions each used deep in the next nests too deep to evaluate.
Having(v, e) == IF v = v THEN e ELSE e

BigZero == Tup([i \in Limbs |-> 0], W)

\* The natural n < 2^31, in units of 1.
BigOfInt(n) ==
    Tup([i \in Limbs |-> IF i <= 4 THEN (n \div Base^(i-1)) % Base ELSE 0], W)

\* a * Base^k (k >= 0) and a \div Base^k.
ShiftLimbsUp(a, k) == Tup([i \in Limbs |-> IF i > k THEN a[i-k] ELSE 0], W)
ShiftLimbsDown(a, k) == Tup([i \in Limbs |-> IF i + k <= W THEN a[i+k] ELSE 0], W)

BigIsZero(a) == \A i \in Limbs : a[i] = 0

\* a < b, comparing from the most significant limb.
BigLess(a, b) ==
    \E i \in Limbs : a[i] < b[i] /\ \A j \in (i+1)..W : a[j] = b[j]

\* a + b.  The carry into limb i comes from a limb j below it that overflows,
\* through limbs that are all full.
BigCarry(a, b, i) ==
    \E j \in 1..(i-1) :
        /\ a[j] + b[j] >= Base
        /\ \A k \in (j+1)..(i-1) : a[k] + b[k] = Base - 1
BigAdd(a, b) ==
    Tup([i \in Limbs |-> (a[i] + b[i] + IF BigCarry(a, b, i) THEN 1 ELSE 0) % Base], W)

\* a - b for a >= b.  The borrow from limb i comes from a limb j below it that
\* is too small, through limbs that are equal.
BigBorrow(a, b, i) ==
    \E j \in 1..(i-1) :
        /\ a[j] < b[j]
        /\ \A k \in (j+1)..(i-1) : a[k] = b[k]
BigSub(a, b) ==
    Tup([i \in Limbs |->
            (a[i] - b[i] - (IF BigBorrow(a, b, i) THEN 1 ELSE 0) + Base) % Base], W)

\* a * c for a small natural c < 2^23, on the limbs lo..hi with the carry
\* coming into limb lo: the limbs of the product and the carry going out.  The
\* range is halved, the low half first, so that the evaluation stays shallow.
RECURSIVE BigMulSmallRange(_, _, _, _, _)
BigMulSmallRange(a, c, lo, hi, carry) ==
    IF lo = hi
    THEN LET s == a[lo] * c + carry
         IN  [limbs |-> <<s % Base>>, carry |-> s \div Base]
    ELSE LET mid == (lo + hi) \div 2
             low == BigMulSmallRange(a, c, lo, mid, carry)
             high == BigMulSmallRange(a, c, mid + 1, hi, low.carry)
         IN  [limbs |-> low.limbs \o high.limbs, carry |-> high.carry]

BigMulSmall(a, c) == BigMulSmallRange(a, c, 1, W, 0).limbs

\* Long division of a by a small natural 0 < c < 2^23, on the limbs hi down
\* to lo with the remainder coming from above: the quotient limbs, most
\* significant first, and the remainder going out.  The high half first.
RECURSIVE BigDivSmallRange(_, _, _, _, _)
BigDivSmallRange(a, c, lo, hi, rem) ==
    IF lo = hi
    THEN LET n == rem * Base + a[lo]
         IN  [q |-> <<n \div c>>, r |-> n % c]
    ELSE LET mid == (lo + hi) \div 2
             high == BigDivSmallRange(a, c, mid + 1, hi, rem)
             low == BigDivSmallRange(a, c, lo, mid, high.r)
         IN  [q |-> high.q \o low.q, r |-> low.r]

\* Quotient (least significant limb first) and remainder of a by c.
BigDivSmall(a, c) ==
    LET d == BigDivSmallRange(a, c, 1, W, 0)
    IN  [q |-> Tup([i \in Limbs |-> d.q[W + 1 - i]], W), r |-> d.r]

\* Number of significant bits of a (0 for zero).
BitLen8(x) == IF x = 0 THEN 0 ELSE CHOOSE k \in 1..8 : 2^(k-1) <= x /\ x < 2^k
TopLimb(a) == IF BigIsZero(a) THEN 0
              ELSE CHOOSE i \in Limbs : a[i] # 0 /\ \A j \in (i+1)..W : a[j] = 0
BitLen(a) == LET t == TopLimb(a)
             IN  IF t = 0 THEN 0 ELSE 8 * (t - 1) + BitLen8(a[t])

\* Bit j (from 0) of a, and whether any bit below j is set.
BigBit(a, j) == (a[(j \div 8) + 1] \div 2^(j % 8)) % 2
BigLowNonZero(a, j) ==
    \/ \E i \in 1..(j \div 8) : a[i] # 0
    \/ a[(j \div 8) + 1] % 2^(j % 8) # 0

\* a with its d lowest bits cleared, and 2^d.
BigClearLow(a, d) ==
    Tup([i \in Limbs |-> IF i <= d \div 8 THEN 0
                         ELSE IF i = (d \div 8) + 1 THEN a[i] - (a[i] % 2^(d % 8))
                         ELSE a[i]], W)
BigPow2(d) == Tup([i \in Limbs |-> IF i = (d \div 8) + 1 THEN 2^(d % 8) ELSE 0], W)

\* ------------------------------------------------------------------- f64

\* The exact magnitude a, plus a positive remainder below one unit when sticky
\* holds, rounded to the 53 significant bits of an f64, ties to even.
RoundMag(a, sticky) ==
    LET len == BitLen(a)
        d == len - 53
    IN  IF d <= 0 THEN a
        ELSE LET guard == BigBit(a, d - 1) = 1
                 rest == sticky \/ BigLowNonZero(a, d - 1)
                 odd == BigBit(a, d) = 1
                 kept == BigClearLow(a, d)
             IN  IF guard /\ (rest \/ odd) THEN BigAdd(kept, BigPow2(d)) ELSE kept

NaN == [nan |-> TRUE, neg |-> FALSE, mag |-> BigZero]
Finite(neg, mag) == [nan |-> FALSE, neg |-> neg /\ ~BigIsZero(mag), mag |-> mag]

\* The f64 of an integer -2^31 < n < 2^31 (exact).
F64OfInt(n) ==
    Finite(n < 0, ShiftLimbsUp(BigOfInt(IF n < 0 THEN -n ELSE n), FracLimbs))

\* The f64 a decimal literal n/d denotes (0 < d < 2^23): the nearest f64.
F64Lit(n, d) ==
    LET qr == BigDivSmall(ShiftLimbsUp(BigOfInt(IF n < 0 THEN -n ELSE n), FracLimbs), d)
    IN  Finite(n < 0, RoundMag(qr.q, qr.r # 0))

F64Neg(x) == IF x.nan THEN NaN ELSE Finite(~x.neg, x.mag)
F64Abs(x) == IF x.nan THEN NaN ELSE Finite(FALSE, x.mag)

\* x + y.
F64Add(x, y) ==
    IF x.nan \/ y.nan THEN NaN
    ELSE IF x.neg = y.neg THEN Finite(x.neg, RoundMag(BigAdd(x.mag, y.mag), FALSE))
    ELSE IF BigLess(x.mag, y.mag)
         THEN Finite(y.neg, RoundMag(BigSub(y.mag, x.mag), FALSE))
         ELSE Finite(x.neg, RoundMag(BigSub(x.mag, y.mag), FALSE))

F64Sub(x, y) == F64Add(x, F64Neg(y))

\* x * c and x / c for an f64 c whose value is the natural 0 < c < 2^23 (every
\* multiplier and divisor of the codec is one: 180.0, 360.0, LAT_MAX as f64,
\* LON_MAX as f64).
F64MulInt(x, c) ==
    IF x.nan THEN NaN ELSE Finite(x.neg, RoundMag(BigMulSmall(x.mag, c), FALSE))

F64DivInt(x, c) ==
    IF x.nan THEN NaN
    ELSE LET qr == BigDivSmall(x.mag, c)
         IN  Finite(x.neg, RoundMag(qr.q, qr.r # 0))

\* x < y and x <= y; false when either is NaN.
F64Lt(x, y) ==
    /\ ~x.nan /\ ~y.nan
    /\ IF x.neg # y.neg THEN x.neg
       ELSE IF x.neg THEN BigLess(y.mag, x.mag) ELSE BigLess(x.mag, y.mag)
F64Le(x, y) == ~x.nan /\ ~y.nan /\ ~F64Lt(y, x)

\* `x as u64` for x < 2^31: truncation toward zero, NaN and negatives to 0.
F64AsU64(x) ==
    IF x.nan \/ x.neg THEN 0
    ELSE LET ip == ShiftLimbsDown(x.mag, FracLimbs)
         IN  ip[1] + ip[2] * Base + ip[3] * Base^2 + ip[4] * Base^3


\* ------------------------------------------------------------------- u64

\* A u64 is the tuple of its 64 bits, x[i] the bit of weight 2^(i-1).
U64Bits == 1..64
\* The u64 of a natural n < 2^31.
U64OfInt(n) == Tup([i \in U64Bits |-> IF i <= 31 THEN (n \div 2^(i-1)) % 2 ELSE 0], 64)
\* x << k and x >> k on 64 bits: the bits shifted out are lost.
U64Shl(x, k) == Tup([i \in U64Bits |-> IF i > k THEN x[i-k] ELSE 0], 64)
U64Shr(x, k) == Tup([i \in U64Bits |-> IF i + k <= 64 THEN x[i+k] ELSE 0], 64)
U64And(x, y) == Tup([i \in U64Bits |-> x[i] * y[i]], 64)
U64Or(x, y) == Tup([i \in U64Bits |-> IF x[i] + y[i] > 0 THEN 1 ELSE 0], 64)
\* Byte k (from 0) of x, and the value of an x below 2^31.
U64Byte(x, k) ==
    x[8*k + 1] + 2 * x[8*k + 2] + 4 * x[8*k + 3] + 8 * x[8*k + 4]
    + 16 * x[8*k + 5] + 32 * x[8*k + 6] + 64 * x[8*k + 7] + 128 * x[8*k + 8]
U64AsInt(x) ==
    U64Byte(x, 0) + 2^8 * U64Byte(x, 1) + 2^16 * U64Byte(x, 2)
    + 2^24 * (U64Byte(x, 3) % 128)

\* ------------------------------------------------------------ constants

BASE32_ALPHABET ==
    << "0", "1", "2", "3", "4", "5", "6", "7", "8", "9", "A", "B", "C", "D",
       "E", "F", "G", "H", "J", "K", "M", "N", "P", "Q", "R", "S", "T", "V",
       "W", "X", "Y", "Z" >>
LAT_BITS == 22
LON_BITS == 23
LAT_MAX == 2^LAT_BITS - 1
LON_MAX == 2^LON_BITS - 1

\* ------------------------------------------------------------- results

Ok(v) == [tag |-> "Ok", val |-> v]
Err(e) == [tag |-> "Err", err |-> e]
Panic == [tag |-> "Panic"]
Unset == [tag |-> "Unset"]
IsOk(r) == r.tag = "Ok"
IsErr(r) == r.tag = "Err"

\* Grid9Error
InvalidLatitude(v) == [kind |-> "InvalidLatitude", value |-> v]
InvalidLongitude(v) == [kind |-> "InvalidLongitude", value |-> v]
InvalidLength(n) == [kind |-> "InvalidLength", len |-> n]
InvalidCharacter(c) == [kind |-> "InvalidCharacter", ch |-> c]
EmptyInput == [kind |-> "EmptyInput"]

\* ------------------------------------------------------------- strings

\* A string is the sequence of its chars.  The char written "U+00E9" stands
\* for a char outside ASCII, two bytes long in UTF-8; every other char of
\* the model is ASCII.
Utf8Len(c) == IF c = "U+00E9" THEN 2 ELSE 1

\* str::len: the length in bytes.
RECURSIVE StrLen(_)
StrLen(s) == IF s = <<>> THEN 0 ELSE Utf8Len(Head(s)) + StrLen(Tail(s))

\* The number of chars before byte offset b, or -1 when b is inside a char
\* or past the end.
CharsBefore(s, b) ==
    LET ks == {k \in 0..Len(s) : StrLen(SubSeq(s, 1, k)) = b}
    IN  IF ks = {} THEN -1 ELSE CHOOSE k \in ks : TRUE

\* &s[lo..hi]: the slice between two byte offsets; it panics unless both
\* are char boundaries.
StrSlice(s, lo, hi) ==
    LET a == CharsBefore(s, lo)
        b == CharsBefore(s, hi)
    IN  IF a < 0 \/ b < 0 THEN Panic ELSE Ok(SubSeq(s, a + 1, b))

\* --------------------------------------------------- validator / formatter

\* A faulty remove_formatting: only the first dash goes.
RemoveFirstDash(formatted) ==
    LET dashes == {i \in 1..Len(formatted) : formatted[i] = "-"}
        first == CHOOSE i \in dashes : \A j \in dashes : i <= j
    IN  IF dashes = {} THEN formatted
        ELSE SubSeq(formatted, 1, first - 1) \o SubSeq(formatted, first + 1, Len(formatted))

remove_formatting(formatted) == SelectSeq(formatted, LAMBDA c : c # "-")

\* A faulty format_for_humans: the last two groups are not separated.
FormatTwoGroups(encoded) ==
    IF StrLen(encoded) # 9 THEN Ok(encoded)
    ELSE LET p1 == StrSlice(encoded, 0, 3)
             p2 == StrSlice(encoded, 3, 9)
         IN  IF p1 = Panic \/ p2 = Panic THEN Panic
             ELSE Ok(p1.val \o <<"-">> \o p2.val)

format_for_humans(encoded) ==
    IF StrLen(encoded) # 9 THEN Ok(encoded)
    ELSE LET p1 == StrSlice(encoded, 0, 3)
             p2 == StrSlice(encoded, 3, 6)
             p3 == StrSlice(encoded, 6, 9)
         IN  IF p1 = Panic \/ p2 = Panic \/ p3 = Panic THEN Panic
             ELSE Ok(p1.val \o <<"-">> \o p2.val \o <<"-">> \o p3.val)

InAlphabet(ch) == \E i \in 1..Len(BASE32_ALPHABET) : BASE32_ALPHABET[i] = ch
AlphabetPosition(ch) ==
    CHOOSE i \in 0..(Len(BASE32_ALPHABET) - 1) : BASE32_ALPHABET[i + 1] = ch

\* A faulty validate_coordinates: the longitude is looked at first.
ValidateLongitudeFirst(latitude, longitude) ==
    IF ~(F64Le(F64OfInt(-180), longitude) /\ F64Le(longitude, F64OfInt(180)))
    THEN Err(InvalidLongitude(longitude))
    ELSE IF ~(F64Le(F64OfInt(-90), latitude) /\ F64Le(latitude, F64OfInt(90)))
    THEN Err(InvalidLatitude(latitude))
    ELSE Ok(<<>>)

validate_coordinates(latitude, longitude) ==
    IF ~(F64Le(F64OfInt(-90), latitude) /\ F64Le(latitude, F64OfInt(90)))
    THEN Err(InvalidLatitude(latitude))
    ELSE IF ~(F64Le(F64OfInt(-180), longitude) /\ F64Le(longitude, F64OfInt(180)))
    THEN Err(InvalidLongitude(longitude))
    ELSE Ok(<<>>)

\* A faulty validate_encoded_string: the chars are not looked at.
ValidateLengthOnly(encoded) ==
    IF encoded = <<>> THEN Err(EmptyInput)
    ELSE IF StrLen(encoded) # 9 THEN Err(InvalidLength(StrLen(encoded)))
    ELSE Ok(<<>>)

validate_encoded_string(encoded) ==
    IF encoded = <<>> THEN Err(EmptyInput)
    ELSE IF StrLen(encoded) # 9 THEN Err(InvalidLength(StrLen(encoded)))
    ELSE LET bad == {i \in 1..Len(encoded) : ~InAlphabet(encoded[i])}
         IN  IF bad # {}
             THEN Err(InvalidCharacter(encoded[CHOOSE i \in bad : \A j \in bad : i <= j]))
             ELSE Ok(<<>>)

is_valid_encoding(encoded) ==
    IsOk(validate_encoded_string(remove_formatting(encoded)))

\* ----------------------------------------------------------------- codec

Min(a, b) == IF a <= b THEN a ELSE b

\* The quantized field of a coordinate: ((x + offset) / span * max) as u64,
\* clamped to max.
Quantize(x, offset, span, max) ==
    LET norm == F64DivInt(F64Add(x, F64OfInt(offset)), span)
    IN  Min(F64AsU64(F64MulInt(norm, max)), max)

\* A faulty packing: the latitude is shifted by LAT_BITS, onto the top bit
\* of the longitude.
PackOverlapping(lat_bits, lon_bits) ==
    U64Or(U64Shl(U64OfInt(lat_bits), LAT_BITS), U64OfInt(lon_bits))

\* packed = (lat_bits << LON_BITS) | lon_bits
Pack(lat_bits, lon_bits) ==
    U64Or(U64Shl(U64OfInt(lat_bits), LON_BITS), U64OfInt(lon_bits))

\* The loop of encode after n iterations: each puts the symbol of the low 5
\* bits of temp in front of the result and shifts temp right by 5.
RECURSIVE EncodeLoop(_, _)
EncodeLoop(packed, n) ==
    IF n = 0 THEN [temp |-> packed, result |-> <<>>]
    ELSE LET before == EncodeLoop(packed, n - 1)
             index == U64AsInt(U64And(before.temp, U64OfInt(31)))
         IN  Having(before,
                    [temp |-> U64Shr(before.temp, 5),
                     result |-> <<BASE32_ALPHABET[index + 1]>> \o before.result])

\* encode from the 9 symbols on: the dashed form when it is asked for.
EncodeResult(result, human_readable) ==
    Having(result, IF human_readable THEN format_for_humans(result) ELSE Ok(result))

\* encode from the packed value on: the loop over the 9 symbols.
EncodePacked(packed, human_readable) ==
    Having(packed, EncodeResult(EncodeLoop(packed, 9).result, human_readable))

\* encode from the quantized fields on.
EncodeBits(lat_bits, lon_bits, human_readable) ==
    Having(lat_bits, Having(lon_bits,
        EncodePacked(Pack(lat_bits, lon_bits), human_readable)))

\* encode once the coordinates are validated.
EncodeValid(v, latitude, longitude, human_readable) ==
    IF IsErr(v) THEN v
    ELSE EncodeBits(Quantize(latitude, 90, 180, LAT_MAX),
                    Quantize(longitude, 180, 360, LON_MAX), human_readable)

encode(latitude, longitude, human_readable) ==
    EncodeValid(validate_coordinates(latitude, longitude),
                latitude, longitude, human_readable)

\* The loop of decode after the first n chars: packed = (packed << 5) | the
\* position of the char in the alphabet, or the error of a char not in it.
RECURSIVE DecodeLoop(_, _)
DecodeLoop(chars, n) ==
    IF n = 0 THEN Ok(U64OfInt(0))
    ELSE LET before == DecodeLoop(chars, n - 1)
         IN  IF IsErr(before) THEN before
             ELSE IF ~InAlphabet(chars[n]) THEN Err(InvalidCharacter(chars[n]))
             ELSE Ok(U64Or(U64Shl(before.val, 5), U64OfInt(AlphabetPosition(chars[n]))))

\* A faulty UnpackLat: the longitude bits are not shifted out.
UnpackLatUnshifted(packed) == U64AsInt(U64And(packed, U64OfInt(LAT_MAX)))

\* The two fields of a packed value.
UnpackLon(packed) == U64AsInt(U64And(packed, U64OfInt(LON_MAX)))
UnpackLat(packed) == U64AsInt(U64And(U64Shr(packed, LON_BITS), U64OfInt(LAT_MAX)))

\* bits / max * span - offset
Denormalize(bits, max, span, offset) ==
    F64Sub(F64MulInt(F64DivInt(F64OfInt(bits), max), span), F64OfInt(offset))

decode(encoded) ==
    LET clean_encoded == remove_formatting(encoded)
        v == validate_encoded_string(clean_encoded)
    IN  IF IsErr(v) THEN v
        ELSE LET p == DecodeLoop(clean_encoded, Len(clean_encoded))
             IN  IF IsErr(p) THEN p
                 ELSE Ok([lat |-> Denormalize(UnpackLat(p.val), LAT_MAX, 180, 90),
                          lon |-> Denormalize(UnpackLon(p.val), LON_MAX, 360, 180)])

\* get_actual_precision: the validation and lat_error_m.  lon_error_m and
\* total_error_m go through cos and sqrt and are left out of the value.
get_actual_precision(latitude, longitude) ==
    LET v == validate_coordinates(latitude, longitude)
    IN  IF IsErr(v) THEN v
        ELSE Ok([lat_error_m |->
                    F64MulInt(F64DivInt(F64OfInt(180), 2^LAT_BITS), 111320)])

\* ----------------------------------------------------------------- batch

Coordinate(lat, lon) == [lat |-> lat, lon |-> lon]

\* A faulty batch_encode: a coordinate that fails is left out.
RECURSIVE BatchEncodeSkipping(_, _, _)
BatchEncodeSkipping(coordinates, human_readable, acc) ==
    IF coordinates = <<>> THEN Ok(acc)
    ELSE LET r == encode(Head(coordinates).lat, Head(coordinates).lon, human_readable)
         IN  BatchEncodeSkipping(Tail(coordinates), human_readable,
                                 IF IsOk(r) THEN Append(acc, r.val) ELSE acc)

\* collect() into a Result: the elements in order, up to the first error.
RECURSIVE BatchEncodeFrom(_, _, _)
BatchEncodeFrom(coordinates, human_readable, acc) ==
    IF coordinates = <<>> THEN Ok(acc)
    ELSE LET r == encode(Head(coordinates).lat, Head(coordinates).lon, human_readable)
         IN  IF ~IsOk(r) THEN r
             ELSE BatchEncodeFrom(Tail(coordinates), human_readable, Append(acc, r.val))

batch_encode(coordinates, human_readable) ==
    BatchEncodeFrom(coordinates, human_readable, <<>>)

RECURSIVE BatchDecodeFrom(_, _)
BatchDecodeFrom(encoded, acc) ==
    IF encoded = <<>> THEN Ok(acc)
    ELSE LET r == decode(Head(encoded))
         IN  IF ~IsOk(r) THEN r
             ELSE BatchDecodeFrom(Tail(encoded),
                                  Append(acc, Coordinate(r.val.lat, r.val.lon)))

batch_decode(encoded) == BatchDecodeFrom(encoded, <<>>)

\* ----------------------------------------------------------- bounding box

\* f64::min and f64::max: the other operand when one is NaN.
F64Min(x, y) ==
    IF x.nan THEN y ELSE IF y.nan THEN x ELSE IF F64Lt(y, x) THEN y ELSE x

\* A faulty f64::max: the smaller operand.
F64MaxAsMin(x, y) == F64Min(x, y)

F64Max(x, y) ==
    IF x.nan THEN y ELSE IF y.nan THEN x ELSE IF F64Lt(x, y) THEN y ELSE x

BoundingBox(min_lat, max_lat, min_lon, max_lon) ==
    [min_lat |-> min_lat, max_lat |-> max_lat, min_lon |-> min_lon, max_lon |-> max_lon]

\* The loop of get_bounding_box after the first n coordinates: the first one
\* starts the four bounds, each later one is folded into them.
RECURSIVE BoundingBoxLoop(_, _)
BoundingBoxLoop(coordinates, n) ==
    IF n = 1
    THEN BoundingBox(coordinates[1].lat, coordinates[1].lat,
                     coordinates[1].lon, coordinates[1].lon)
    ELSE LET before == BoundingBoxLoop(coordinates, n - 1)
             coord == coordinates[n]
         IN  BoundingBox(F64Min(before.min_lat, coord.lat),
                         F64Max(before.max_lat, coord.lat),
                         F64Min(before.min_lon, coord.lon),
                         F64Max(before.max_lon, coord.lon))

get_bounding_box(coordinates) ==
    IF coordinates = <<>> THEN Err(EmptyInput)
    ELSE Ok(BoundingBoxLoop(coordinates, Len(coordinates)))

\* --------------------------------------------------------- group_by_grid9

\* A HashMap<String, Vec<Coordinate>> is a function from the set of its keys.
EmptyMap == [code \in {} |-> <<>>]

\* A faulty entry: insert(code, vec![coord]), which replaces the group.
Insert(groups, code, coord) ==
    [c \in DOMAIN groups \cup {code} |-> IF c = code THEN <<coord>> ELSE groups[c]]

\* groups.entry(code).or_insert_with(Vec::new).push(coord)
EntryPush(groups, code, coord) ==
    [c \in DOMAIN groups \cup {code} |->
        IF c # code THEN groups[c]
        ELSE IF code \in DOMAIN groups THEN Append(groups[code], coord)
        ELSE <<coord>>]

\* The loop of group_by_grid9 over the coordinates still to come: the first
\* error of encode is returned.
RECURSIVE GroupByFrom(_, _, _)
GroupByFrom(coordinates, human_readable, groups) ==
    IF coordinates = <<>> THEN Ok(groups)
    ELSE LET coord == Head(coordinates)
             code == encode(coord.lat, coord.lon, human_readable)
         IN  IF ~IsOk(code) THEN code
             ELSE GroupByFrom(Tail(coordinates), human_readable,
                              EntryPush(groups, code.val, coord))

group_by_grid9(coordinates, human_readable) ==
    GroupByFrom(coordinates, human_readable, EmptyMap)

\* ------------------------------------------------------------ find_nearby

\* calculate_distance computes the haversine formula with sin, cos, sqrt and
\* atan2.  It is modelled by an interval [lo, hi] of metres that holds the
\* computed distance:
\*   - equal points give exactly 0.0 (d_lat = d_lon = 0.0, sin(0.0) = 0.0, so
\*     a = 0.0 and c = 2 * atan2(0.0, 1.0) = 0.0);
\*   - the great-circle distance is at least the meridian arc of the latitude
\*     difference, EARTH_RADIUS_M * PI / 180 = 111194.9... metres per degree;
\*   - within one degree of the equator and of each other it is at least
\*     0.999 of the arc of the longitude difference;
\*   - it is at most the meridian arc plus the arc of the longitude difference.
\* The factors leave a relative margin of 10^-5 for the rounding of the
\* formula.
MetresPerDegreeBelow == 111194
MetresPerDegreeAbove == 111196
EquatorMetresPerDegreeBelow == 111100

NearEquator(lat1, lat2, d_lon) ==
    /\ F64Le(F64Abs(lat1), F64OfInt(1))
    /\ F64Le(F64Abs(lat2), F64OfInt(1))
    /\ F64Le(d_lon, F64OfInt(1))

haversine_distance(lat1, lon1, lat2, lon2) ==
    IF lat1 = lat2 /\ lon1 = lon2 THEN [lo |-> F64OfInt(0), hi |-> F64OfInt(0)]
    ELSE LET d_lat == F64Abs(F64Sub(lat2, lat1))
             d_lon == F64Abs(F64Sub(lon2, lon1))
             along == IF NearEquator(lat1, lat2, d_lon)
                      THEN F64MulInt(d_lon, EquatorMetresPerDegreeBelow)
                      ELSE F64OfInt(0)
         IN  [lo |-> F64Max(F64MulInt(d_lat, MetresPerDegreeBelow), along),
              hi |-> F64MulInt(F64Add(d_lat, d_lon), MetresPerDegreeAbove)]

\* calculate_distance once both tokens are decoded: the first failure, or
\* the distance of the two points.
DistanceBetween(p1, p2) ==
    IF IsErr(p1) THEN p1
    ELSE IF IsErr(p2) THEN p2
    ELSE Ok(haversine_distance(p1.val.lat, p1.val.lon, p2.val.lat, p2.val.lon))

calculate_distance(encoded1, encoded2) ==
    DistanceBetween(decode(encoded1), decode(encoded2))

\* The outcomes of `distance <= radius_meters` the interval leaves open.
DistanceWithin(distance, radius_meters) ==
    IF F64Le(distance.hi, radius_meters) THEN {TRUE}
    ELSE IF F64Lt(radius_meters, distance.lo) THEN {FALSE}
    ELSE BOOLEAN

\* The outcomes of the three tests on a scanned point: it encodes, its
\* distance from the center's token is computed, the distance is within the
\* radius.
WithinOf(distance, radius_meters) ==
    IF IsOk(distance) THEN DistanceWithin(distance.val, radius_meters) ELSE {FALSE}
Accepts(center_encoded, point, radius_meters) ==
    IF IsOk(point)
    THEN WithinOf(calculate_distance(center_encoded, point.val), radius_meters)
    ELSE {FALSE}

\* The scan steps of find_nearby, 3.0 / 111_320.0 degrees.
ZeroStep == F64OfInt(0)
lat_step == F64DivInt(F64OfInt(3), 111320)
lon_step == F64DivInt(F64OfInt(3), 111320)

\* lon_delta = radius_meters / (111_320.0 * cos(center_lat * PI / 180.0)).
\* At center_lat = 0.0 the argument of cos is 0.0 and cos(0.0) = 1.0, so that
\* lon_delta = radius_meters / 111_320.0.  At center_lat = +-90.0 the
\* argument is the f64 nearest PI / 2 and its cosine is about 6.1e-17, so that
\* lon_delta exceeds 10^11 * radius_meters; for a radius of a metre or more
\* every such value gives the same clamped range as 2^20 degrees does.  Other
\* latitudes are outside the model.
lon_delta(center_lat, radius_meters) ==
    CASE center_lat = F64OfInt(0) -> F64DivInt(radius_meters, 111320)
      [] F64Abs(center_lat) = F64OfInt(90)
           /\ F64Le(F64OfInt(1), radius_meters) -> F64OfInt(1048576)

\* The checks validating the center before the radius.
CenterThenRadius(center_lat, center_lon, radius_meters) ==
    LET center_encoded == encode(center_lat, center_lon, FALSE)
    IN  IF IsErr(center_encoded) THEN center_encoded
        ELSE IF F64Le(radius_meters, F64OfInt(0))
        THEN Err(InvalidLatitude(radius_meters))
        ELSE center_encoded

\* The checks of find_nearby: the radius, then the center, which encode
\* validates.  The token of the center when both pass.
RadiusThenCenter(center_lat, center_lon, radius_meters) ==
    IF F64Le(radius_meters, F64OfInt(0))
    THEN Err(InvalidLatitude(radius_meters))
    ELSE encode(center_lat, center_lon, FALSE)

\* A loop test that forgets the limit on the number of results.
WhileInRange(at, limit, results, max_results) == F64Le(at, limit)

\* The test of both loops: `at <= limit && results.len() < max_results`.
WhileTest(at, limit, results, max_results) ==
    F64Le(at, limit) /\ Len(results) < max_results

\* The locals of find_nearby when its outer loop is first reached.
ScanStart(center_lat, center_lon, radius_meters, center_encoded) ==
    LET lat_delta == F64DivInt(radius_meters, 111320)
        lon_d == lon_delta(center_lat, radius_meters)
        min_lon == F64Max(F64Sub(center_lon, lon_d), F64OfInt(-180))
    IN  [center_encoded |-> center_encoded,
         min_lat |-> F64Max(F64Sub(center_lat, lat_delta), F64OfInt(-80)),
         max_lat |-> F64Min(F64Add(center_lat, lat_delta), F64OfInt(80)),
         min_lon |-> min_lon,
         max_lon |-> F64Min(F64Add(center_lon, lon_d), F64OfInt(180)),
         lat |-> F64Max(F64Sub(center_lat, lat_delta), F64OfInt(-80)),
         lon |-> min_lon,
         results |-> <<>>,
         scanned |-> 0]

\* ---------------------------------------------------------------- inputs

\* Latitudes and longitudes in 1/10000 degree: the coordinates of the tests
\* and of the documentation, the bounds, and values outside the ranges.
LatDecimals ==
    {407128, 515074, 356762, 0, -338688, 900000, -900000, 899000, -899000,
     900001, 910000, -910000}
LonDecimals ==
    {-740060, -1278, 1396503, 0, 1512093, 1800000, -1800000, 1799000, -1799000,
     -1800001, 1810000, -1810000}
Lats == {F64Lit(n, 10000) : n \in LatDecimals} \cup {NaN}
Lons == {F64Lit(n, 10000) : n \in LonDecimals} \cup {NaN}

\* The strings of the tests.
TestStrings ==
    { <<>>,
      <<"T", "O", "O", "L", "O", "N", "G">>,
      <<"I", "N", "V", "A", "L", "I", "D", "!">>,
      <<"I", "N", "V", "A", "L", "I", "D">>,
      <<"Q", "7", "K", "H", "2", "B", "B", "Y">>,
      <<"Q", "7", "K", "H", "2", "B", "B", "Y", "F", "I">>,
      <<"T", "O", "O", "L", "O", "N", "G", "1", "2">>,
      <<"-", "-">>,
      <<"U+00E9", "U+00E9", "U+00E9", "U+00E9", "0">> }

\* Tokens, and the strings a few edits make of them.
BaseTokens ==
    { <<"Q", "7", "K", "H", "2", "B", "B", "Y", "F">>,
      <<"0", "0", "0", "0", "8", "0", "0", "0", "0">>,
      <<"Z", "Z", "Z", "Z", "Z", "Z", "Z", "Z", "Z">> }
Edits ==
    { [op |-> "ins", at |-> 3, ch |-> "-"],
      [op |-> "ins", at |-> 7, ch |-> "-"],
      [op |-> "ins", at |-> 0, ch |-> "-"],
      [op |-> "ins", at |-> 9, ch |-> "0"],
      [op |-> "rep", at |-> 2, ch |-> "!"],
      [op |-> "rep", at |-> 8, ch |-> "I"],
      [op |-> "rep", at |-> 5, ch |-> "U+00E9"],
      [op |-> "del", at |-> 9, ch |-> "-"] }
ApplyEdit(s, e) ==
    IF e.at > Len(s) THEN s
    ELSE IF e.op = "ins" THEN SubSeq(s, 1, e.at) \o <<e.ch>> \o SubSeq(s, e.at + 1, Len(s))
    ELSE IF e.at = 0 THEN s
    ELSE IF e.op = "rep" THEN [s EXCEPT ![e.at] = e.ch]
    ELSE SubSeq(s, 1, e.at - 1) \o SubSeq(s, e.at + 1, Len(s))
RECURSIVE Edited(_)
Edited(n) ==
    IF n = 0 THEN BaseTokens
    ELSE LET prev == Edited(n - 1)
         IN  prev \cup {ApplyEdit(s, e) : s \in prev, e \in Edits}
Strings == TestStrings \cup Edited(MaxEdits)

\* The elements of the batches.
BatchCoords ==
    { Coordinate(F64Lit(407128, 10000), F64Lit(-740060, 10000)),
      Coordinate(F64Lit(4071281, 100000), F64Lit(-740060, 10000)),
      Coordinate(F64Lit(515074, 10000), F64Lit(-1278, 10000)),
      Coordinate(F64OfInt(91), F64OfInt(0)),
      Coordinate(F64OfInt(0), F64OfInt(181)),
      Coordinate(NaN, F64OfInt(0)) }
BatchTokens ==
    { <<"Q", "7", "K", "H", "2", "B", "B", "Y", "F">>,
      <<"0", "0", "0", "-", "0", "8", "0", "-", "0", "0", "0">>,
      <<>>,
      <<"I", "N", "V", "A", "L", "I", "D", "!">> }
ListsOf(S) == UNION {[1..n -> S] : n \in 0..MaxBatch}

\* The calls of find_nearby: centers on the equator and at a pole, centers
\* outside the ranges, radii of a few metres, zero and negative.
NearbyCenters ==
    { Coordinate(F64OfInt(0), F64OfInt(0)),
      Coordinate(F64OfInt(0), F64OfInt(180)),
      Coordinate(F64OfInt(90), F64OfInt(0)),
      Coordinate(F64OfInt(91), F64OfInt(0)),
      Coordinate(F64OfInt(0), F64OfInt(181)) }
NearbyRadii == {F64OfInt(n) : n \in -1..3}

Inputs ==
    [kind : {"coord"}, lat : Lats, lon : Lons, human : BOOLEAN]
    \cup [kind : {"str"}, s : Strings]
    \cup [kind : {"coords"}, list : ListsOf(BatchCoords), human : BOOLEAN]
    \cup [kind : {"strs"}, list : ListsOf(BatchTokens)]
    \cup [kind : {"nearby"}, center : NearbyCenters, radius : NearbyRadii,
           max : 0..MaxResults]

\* ------------------------------------------------------------------ state

\* A caller holds one input and calls the API on it, one call per step, in
\* the order of pc.  Each variable holds the result of one call, Unset before
\* the call is made.
VARIABLES
    input,        \* what the caller starts from
    pc,           \* the next call
    precision,    \* get_actual_precision(lat, lon)
    encoded,      \* encode(lat, lon, human)
    valid,        \* is_valid_encoding(s)
    decoded,      \* decode(s), s the input string or the token of encoded
    formatted,    \* format_for_humans(s)
    unformatted,  \* remove_formatting(formatted)
    decodedF,     \* decode(formatted)
    reencoded,    \* encode(decoded.lat, decoded.lon, false)
    batch,        \* batch_encode(list, human) or batch_decode(list)
    bbox,         \* get_bounding_box(list)
    groups,       \* group_by_grid9(list, human)
    scan,         \* the locals of find_nearby while it runs
    nearby        \* find_nearby(lat, lon, radius, max)

vars == <<input, pc, precision, encoded, valid, decoded, formatted, unformatted,
          decodedF, reencoded, batch, bbox, groups, scan, nearby>>

FirstCall(in) ==
    CASE in.kind = "coord" -> "get_actual_precision"
      [] in.kind = "str" -> "is_valid_encoding"
      [] in.kind = "coords" -> "batch_encode"
      [] in.kind = "strs" -> "batch_decode"
      [] in.kind = "nearby" -> "find_nearby"

Init ==
    /\ input \in Inputs
    /\ pc = FirstCall(input)
    /\ precision = Unset /\ encoded = Unset /\ valid = Unset /\ decoded = Unset
    /\ formatted = Unset /\ unformatted = Unset /\ decodedF = Unset
    /\ reencoded = Unset /\ batch = Unset
    /\ bbox = Unset /\ groups = Unset /\ scan = Unset /\ nearby = Unset

\* The string decode is called on.
Subject == IF input.kind = "str" THEN input.s ELSE encoded.val

GetActualPrecision ==
    /\ pc = "get_actual_precision"
    /\ precision' = get_actual_precision(input.lat, input.lon)
    /\ pc' = "encode"
    /\ UNCHANGED <<input, encoded, valid, decoded, formatted, unformatted,
                   decodedF, reencoded, batch,
                   bbox, groups, scan, nearby>>

Encode ==
    /\ pc = "encode"
    /\ encoded' = encode(input.lat, input.lon, input.human)
    /\ pc' = IF IsOk(encoded') THEN "decode" ELSE "done"
    /\ UNCHANGED <<input, precision, valid, decoded, formatted, unformatted,
                   decodedF, reencoded, batch,
                   bbox, groups, scan, nearby>>

IsValidEncoding ==
    /\ pc = "is_valid_encoding"
    /\ valid' = Ok(is_valid_encoding(input.s))
    /\ pc' = "decode"
    /\ UNCHANGED <<input, precision, encoded, decoded, formatted, unformatted,
                   decodedF, reencoded, batch,
                   bbox, groups, scan, nearby>>

Decode ==
    /\ pc = "decode"
    /\ decoded' = decode(Subject)
    /\ pc' = IF input.kind = "str" THEN "format_for_humans"
             ELSE IF IsOk(decoded') THEN "reencode" ELSE "done"
    /\ UNCHANGED <<input, precision, encoded, valid, formatted, unformatted,
                   decodedF, reencoded, batch,
                   bbox, groups, scan, nearby>>

FormatForHumans ==
    /\ pc = "format_for_humans"
    /\ formatted' = format_for_humans(input.s)
    /\ pc' = IF IsOk(formatted') THEN "remove_formatting" ELSE "done"
    /\ UNCHANGED <<input, precision, encoded, valid, decoded, unformatted,
                   decodedF, reencoded, batch,
                   bbox, groups, scan, nearby>>

RemoveFormatting ==
    /\ pc = "remove_formatting"
    /\ unformatted' = Ok(remove_formatting(formatted.val))
    /\ pc' = "decode_formatted"
    /\ UNCHANGED <<input, precision, encoded, valid, decoded, formatted,
                   decodedF, reencoded, batch,
                   bbox, groups, scan, nearby>>

DecodeFormatted ==
    /\ pc = "decode_formatted"
    /\ decodedF' = decode(formatted.val)
    /\ pc' = IF IsOk(decoded) THEN "reencode" ELSE "done"
    /\ UNCHANGED <<input, precision, encoded, valid, decoded, formatted,
                   unformatted, reencoded, batch,
                   bbox, groups, scan, nearby>>

Reencode ==
    /\ pc = "reencode"
    /\ reencoded' = encode(decoded.val.lat, decoded.val.lon, FALSE)
    /\ pc' = "done"
    /\ UNCHANGED <<input, precision, encoded, valid, decoded, formatted,
                   unformatted, decodedF, batch,
                   bbox, groups, scan, nearby>>

BatchEncode ==
    /\ pc = "batch_encode"
    /\ batch' = batch_encode(input.list, input.human)
    /\ pc' = "get_bounding_box"
    /\ UNCHANGED <<input, precision, encoded, valid, decoded, formatted,
                   unformatted, decodedF, reencoded,
                   bbox, groups, scan, nearby>>

GetBoundingBox ==
    /\ pc = "get_bounding_box"
    /\ bbox' = get_bounding_box(input.list)
    /\ pc' = "group_by_grid9"
    /\ UNCHANGED <<input, precision, encoded, valid, decoded, formatted,
                   unformatted, decodedF, reencoded, batch, groups, scan, nearby>>

GroupByGrid9 ==
    /\ pc = "group_by_grid9"
    /\ groups' = group_by_grid9(input.list, input.human)
    /\ pc' = "done"
    /\ UNCHANGED <<input, precision, encoded, valid, decoded, formatted,
                   unformatted, decodedF, reencoded, batch, bbox, scan, nearby>>

BatchDecode ==
    /\ pc = "batch_decode"
    /\ batch' = batch_decode(input.list)
    /\ pc' = "done"
    /\ UNCHANGED <<input, precision, encoded, valid, decoded, formatted,
                   unformatted, decodedF, reencoded,
                   bbox, groups, scan, nearby>>

\* find_nearby after its checks: their error is returned, or the scan begins.
BeginScan(center_encoded) ==
    IF IsErr(center_encoded)
    THEN /\ nearby' = center_encoded
         /\ pc' = "done"
         /\ UNCHANGED scan
    ELSE /\ scan' = ScanStart(input.center.lat, input.center.lon,
                              input.radius, center_encoded.val)
         /\ pc' = "scan_outer"
         /\ UNCHANGED nearby

\* find_nearby up to its outer loop: the radius check, the encoding of the
\* center, the scan range.
FindNearbyStart ==
    /\ pc = "find_nearby"
    /\ BeginScan(RadiusThenCenter(input.center.lat, input.center.lon,
                                  input.radius))
    /\ UNCHANGED <<input, precision, encoded, valid, decoded, formatted,
                   unformatted, decodedF, reencoded, batch, bbox, groups>>

\* The test of the outer loop: into the inner loop at min_lon, or the return.
ScanOuter ==
    /\ pc = "scan_outer"
    /\ IF WhileTest(scan.lat, scan.max_lat, scan.results, input.max)
       THEN /\ scan' = [scan EXCEPT !.lon = scan.min_lon]
            /\ pc' = "scan_inner"
            /\ UNCHANGED nearby
       ELSE /\ nearby' = Ok(scan.results)
            /\ pc' = "done"
            /\ UNCHANGED scan
    /\ UNCHANGED <<input, precision, encoded, valid, decoded, formatted,
                   unformatted, decodedF, reencoded, batch, bbox, groups>>

\* The body of the inner loop for the outcome of encode(lat, lon, false).
ScanPoint(point) ==
    \E within \in Accepts(scan.center_encoded, point, input.radius) :
        scan' = [scan EXCEPT
                   !.results = IF within THEN Append(@, point.val) ELSE @,
                   !.lon = F64Add(@, lon_step),
                   !.scanned = @ + 1]

\* The test of the inner loop: one scanned point, or the end of the row.
ScanInner ==
    /\ pc = "scan_inner"
    /\ IF WhileTest(scan.lon, scan.max_lon, scan.results, input.max)
       THEN /\ ScanPoint(encode(scan.lat, scan.lon, FALSE))
            /\ pc' = "scan_inner"
       ELSE /\ scan' = [scan EXCEPT !.lat = F64Add(@, lat_step)]
            /\ pc' = "scan_outer"
    /\ UNCHANGED <<input, precision, encoded, valid, decoded, formatted,
                   unformatted, decodedF, reencoded, batch, bbox, groups, nearby>>

Next ==
    \/ GetActualPrecision
    \/ Encode
    \/ IsValidEncoding
    \/ Decode
    \/ FormatForHumans
    \/ RemoveFormatting
    \/ DecodeFormatted
    \/ Reencode
    \/ BatchEncode
    \/ GetBoundingBox
    \/ GroupByGrid9
    \/ BatchDecode
    \/ FindNearbyStart
    \/ ScanOuter
    \/ ScanInner

Spec == Init /\ [][Next]_vars

\* A call that has started runs on: the code is sequential and nothing
\* suspends it, so a step that can be taken is eventually taken.  This is
\* weak fairness of Next, WF_vars(Next), with ENABLED <<Next>>_vars written
\* out: a step is possible exactly when the caller is not done.
Fairness == []<>(pc = "done") \/ []<><<Next>>_vars
LiveSpec == Init /\ [][Next]_vars /\ Fairness

\* ----------------------------------------------------------------- claims

\* The coordinates the documentation of encode admits.
ValidLatitude(x) == F64Le(F64OfInt(-90), x) /\ F64Le(x, F64OfInt(90))
ValidLongitude(x) == F64Le(F64OfInt(-180), x) /\ F64Le(x, F64OfInt(180))
ValidCoordinate == ValidLatitude(input.lat) /\ ValidLongitude(input.lon)

\* |a - b| < n/d, as the tests compute it.
Within(a, b, n, d) == F64Lt(F64Abs(F64Sub(a, b)), F64Lit(n, d))

\* A token: 9 chars, each in the alphabet.
IsToken(s) == Len(s) = 9 /\ \A i \in 1..Len(s) : InAlphabet(s[i])

\* C1: for every valid coordinate, encode(lat, lon, false) succeeds, decode of
\* its token succeeds, and the decoded latitude and longitude are each less
\* than 0.01 from the ones encoded (so also less than 0.1 at +-90, +-180).
C1_RoundTripWithinTolerance ==
    (input.kind = "coord" /\ ~input.human /\ ValidCoordinate) =>
        /\ encoded # Unset => IsOk(encoded)
        /\ decoded # Unset =>
              /\ IsOk(decoded)
              /\ Within(input.lat, decoded.val.lat, 1, 100)
              /\ Within(input.lon, decoded.val.lon, 1, 100)

\* A valid coordinate has been encoded and decoded, and both fields moved.
C1_Witness ==
    /\ input.kind = "coord" /\ ~input.human /\ ValidCoordinate
    /\ IsOk(decoded)
    /\ decoded.val.lat # input.lat
    /\ decoded.val.lon # input.lon

\* C2: re-encoding is idempotent: for every valid coordinate, encoding what
\* decode made of its token gives that token again; and for every token t,
\* encode(decode(t), false) = t.
C2_ReencodeIsIdempotent ==
    /\ (input.kind = "coord" /\ ~input.human /\ reencoded # Unset) =>
          reencoded = encoded
    /\ (input.kind = "str" /\ IsToken(input.s) /\ reencoded # Unset) =>
          reencoded = Ok(input.s)

\* C3: for every token t, remove_formatting(format_for_humans(t)) = t and
\* decode(format_for_humans(t)) is exactly decode(t).
C3_DashedFormIsLossless ==
    (input.kind = "str" /\ IsToken(input.s)) =>
        /\ formatted # Unset => IsOk(formatted)
        /\ unformatted # Unset => unformatted = Ok(input.s)
        /\ decodedF # Unset => IsOk(decodedF) /\ decodedF = decoded

\* A token has been formatted with its two dashes, unformatted and decoded.
C3_Witness ==
    /\ input.kind = "str" /\ IsToken(input.s)
    /\ IsOk(formatted) /\ Len(formatted.val) = 11
    /\ unformatted = Ok(input.s)
    /\ IsOk(decodedF)

\* C4: for every valid coordinate, encode(lat, lon, false) is 9 chars of the
\* alphabet, and encode(lat, lon, true) is 11 chars: two dashes, one after the
\* 3rd and one after the 6th symbol, and 9 chars of the alphabet.
C4_EncodedShape ==
    (input.kind = "coord" /\ ValidCoordinate /\ encoded # Unset) =>
        /\ IsOk(encoded)
        /\ IF input.human
           THEN /\ Len(encoded.val) = 11
                /\ {i \in 1..Len(encoded.val) : encoded.val[i] = "-"} = {4, 8}
                /\ IsToken(SelectSeq(encoded.val, LAMBDA c : c # "-"))
           ELSE IsToken(encoded.val)

\* A valid coordinate has been encoded with dashes.
C4_Witness ==
    /\ input.kind = "coord" /\ ValidCoordinate /\ input.human
    /\ IsOk(encoded) /\ encoded.val[4] = "-"

\* What C5 says of a result r of encode or get_actual_precision.
LatitudeCheckedFirst(r) ==
    IF ~ValidLatitude(input.lat) THEN r = Err(InvalidLatitude(input.lat))
    ELSE IF ~ValidLongitude(input.lon) THEN r = Err(InvalidLongitude(input.lon))
    ELSE IsOk(r)

\* C5: encode and get_actual_precision fail with InvalidLatitude carrying the
\* latitude when it is outside [-90, 90], whatever the longitude; with
\* InvalidLongitude carrying the longitude when the latitude is inside and the
\* longitude outside [-180, 180]; and succeed inside both ranges, bounds
\* included.
C5_LatitudeValidatedFirst ==
    input.kind = "coord" =>
        /\ precision # Unset => LatitudeCheckedFirst(precision)
        /\ encoded # Unset => LatitudeCheckedFirst(encoded)

\* encode has refused a coordinate with both fields outside their ranges, for
\* its latitude.
C5_Witness ==
    /\ input.kind = "coord"
    /\ ~ValidLatitude(input.lat) /\ ~ValidLongitude(input.lon)
    /\ ~input.lat.nan
    /\ encoded = Err(InvalidLatitude(input.lat))
    /\ precision = Err(InvalidLatitude(input.lat))

\* s without its dashes, and the first char of s outside the alphabet.
Cleaned(s) == SelectSeq(s, LAMBDA c : c # "-")
FirstInvalidChar(s) ==
    s[CHOOSE i \in 1..Len(s) :
        ~InAlphabet(s[i]) /\ \A j \in 1..(i-1) : InAlphabet(s[j])]

\* C6: decode, on s stripped of its dashes: fails with EmptyInput when that is
\* empty; otherwise with InvalidLength carrying its length when it is not
\* exactly 9 characters long; otherwise with InvalidCharacter carrying its
\* first character outside the alphabet when it has one.
C6_DecodeClassifiesInvalidInput ==
    (input.kind = "str" /\ decoded # Unset) =>
        LET clean == Cleaned(input.s)
        IN  IF clean = <<>> THEN decoded = Err(EmptyInput)
            ELSE IF Len(clean) # 9 THEN decoded = Err(InvalidLength(Len(clean)))
            ELSE IF ~IsToken(clean)
                 THEN decoded = Err(InvalidCharacter(FirstInvalidChar(clean)))
            ELSE TRUE

\* C7: decode("") fails with EmptyInput, decode("TOOLONG") with InvalidLength
\* and decode("INVALID!") with InvalidCharacter.
C7_TestedDecodeErrors ==
    (input.kind = "str" /\ decoded # Unset) =>
        /\ input.s = <<>> => decoded = Err(EmptyInput)
        /\ input.s = <<"T", "O", "O", "L", "O", "N", "G">> =>
              IsErr(decoded) /\ decoded.err.kind = "InvalidLength"
        /\ input.s = <<"I", "N", "V", "A", "L", "I", "D", "!">> =>
              IsErr(decoded) /\ decoded.err.kind = "InvalidCharacter"

\* C8: is_valid_encoding(s) is true exactly when s without its dashes is 9
\* characters of the alphabet, which is exactly when decode(s) succeeds.
C8_IsValidEncodingIffToken ==
    input.kind = "str" =>
        /\ valid # Unset => valid = Ok(IsToken(Cleaned(input.s)))
        /\ decoded # Unset => valid = Ok(IsOk(decoded))

\* A string with a dash in front of a token has been found valid and decoded.
C8_Witness ==
    /\ input.kind = "str" /\ Len(input.s) > 9 /\ input.s[1] = "-"
    /\ valid = Ok(TRUE)
    /\ IsOk(decoded)

\* C9: encode(40.7128, -74.0060, false) is "Q7KH2BBYF" and
\* encode(40.7128, -74.0060, true) is "Q7K-H2B-BYF".
C9_DocumentedToken ==
    ( /\ input.kind = "coord"
      /\ input.lat = F64Lit(407128, 10000)
      /\ input.lon = F64Lit(-740060, 10000)
      /\ encoded # Unset ) =>
        encoded = Ok(IF input.human
                     THEN <<"Q", "7", "K", "-", "H", "2", "B", "-", "B", "Y", "F">>
                     ELSE <<"Q", "7", "K", "H", "2", "B", "B", "Y", "F">>)

\* What C10 says of the result of a batch, each[i] being what the single
\* operation gives for element i and entries the list of the entries made of
\* their values when all succeed.
AllOrNothing(each, entries) ==
    LET bad == {i \in 1..Len(each) : ~IsOk(each[i])}
    IN  IF bad = {} THEN batch = Ok(entries)
        ELSE batch = each[CHOOSE i \in bad : \A j \in bad : i <= j]

\* C10: batch_encode and batch_decode give, when every element is valid, the
\* list of what encode (decode) gives for each, in input order; and otherwise
\* the error encode (decode) gives for the first invalid element, and no list.
C10_BatchAllOrNothing ==
    /\ (input.kind = "coords" /\ batch # Unset) =>
          LET each == [i \in 1..Len(input.list) |->
                          encode(input.list[i].lat, input.list[i].lon, input.human)]
          IN  AllOrNothing(each, [i \in 1..Len(each) |-> each[i].val])
    /\ (input.kind = "strs" /\ batch # Unset) =>
          LET each == [i \in 1..Len(input.list) |-> decode(input.list[i])]
          IN  AllOrNothing(each, [i \in 1..Len(each) |->
                                     Coordinate(each[i].val.lat, each[i].val.lon)])

\* batch_encode has failed on a list whose first coordinate is valid.
C10_Witness ==
    /\ input.kind = "coords" /\ Len(input.list) = 2
    /\ ValidLatitude(input.list[1].lat) /\ ValidLongitude(input.list[1].lon)
    /\ IsErr(batch)

\* The list in the opposite order, and whether no field of it is NaN.
Reversed(list) == [i \in 1..Len(list) |-> list[Len(list) + 1 - i]]
NoNaN(list) == \A i \in 1..Len(list) : ~list[i].lat.nan /\ ~list[i].lon.nan

\* What C11 says of the box b of a non-empty list: it holds every coordinate,
\* each bound is the field of some coordinate, and the order does not matter.
ExactBox(b, list) ==
    /\ \A i \in 1..Len(list) :
          /\ F64Le(b.min_lat, list[i].lat) /\ F64Le(list[i].lat, b.max_lat)
          /\ F64Le(b.min_lon, list[i].lon) /\ F64Le(list[i].lon, b.max_lon)
    /\ \E i \in 1..Len(list) : b.min_lat = list[i].lat
    /\ \E i \in 1..Len(list) : b.max_lat = list[i].lat
    /\ \E i \in 1..Len(list) : b.min_lon = list[i].lon
    /\ \E i \in 1..Len(list) : b.max_lon = list[i].lon
    /\ get_bounding_box(Reversed(list)) = Ok(b)

\* C11: get_bounding_box fails with EmptyInput exactly on the empty list; on
\* any other list its box holds every coordinate, each of its four bounds is
\* the field of some coordinate, and it does not depend on the order.
C11_BoundingBoxExact ==
    (input.kind = "coords" /\ bbox # Unset) =>
        IF input.list = <<>> THEN bbox = Err(EmptyInput)
        ELSE IsOk(bbox) /\ ExactBox(bbox.val, input.list)

\* C11 as it holds: the same, for the lists none of whose fields is NaN (a
\* NaN field is left out of the bounds and is inside no box).
C11_BoundingBoxExactWithoutNaN ==
    (input.kind = "coords" /\ bbox # Unset) =>
        IF input.list = <<>> THEN bbox = Err(EmptyInput)
        ELSE /\ IsOk(bbox)
             /\ NoNaN(input.list) => ExactBox(bbox.val, input.list)

\* The box of two coordinates has been computed, its lower latitude coming
\* from the second one.
C11_Witness ==
    /\ input.kind = "coords" /\ Len(input.list) = 2 /\ NoNaN(input.list)
    /\ IsOk(bbox)
    /\ bbox.val.min_lat = input.list[2].lat
    /\ input.list[1].lat # input.list[2].lat

\* The point a token of find_nearby decodes to can be within radius metres
\* of the point (lat, lon): the interval of the distance does not exclude it.
CanBeWithin(token, lat, lon, radius) ==
    LET point == decode(token)
    IN  /\ IsOk(point)
        /\ TRUE \in DistanceWithin(
                      haversine_distance(lat, lon, point.val.lat, point.val.lon),
                      radius)

\* C12: every token find_nearby(lat, lon, r, k) returns decodes to a point
\* whose haversine distance from the requested center (lat, lon) is at most r.
C12_ResultsWithinRadiusOfCenter ==
    (input.kind = "nearby" /\ IsOk(nearby)) =>
        \A i \in 1..Len(nearby.val) :
            CanBeWithin(nearby.val[i], input.center.lat, input.center.lon,
                        input.radius)

\* C13: find_nearby never returns more than max_results tokens: at every
\* step of the scan the number of accepted tokens is at most max_results, the
\* scan takes no further step once that number is reached, and with
\* max_results = 0 the result is the empty list.
C13_NeverMoreThanMaxResults ==
    /\ [](scan # Unset => Len(scan.results) <= input.max)
    /\ [](IsOk(nearby) => /\ Len(nearby.val) <= input.max
                          /\ input.max = 0 => nearby.val = <<>>)
    /\ [][(scan # Unset /\ Len(scan.results) >= input.max) =>
             /\ scan'.scanned = scan.scanned
             /\ scan'.results = scan.results]_vars

\* A scan that max_results ends: two of the four points of the range are
\* scanned, both accepted, and the next row is still in the range.
C13_Witness ==
    /\ IsOk(nearby) /\ input.max = 2 /\ Len(nearby.val) = 2
    /\ scan.scanned = 2
    /\ F64Le(scan.lat, scan.max_lat)

\* The failure of find_nearby for an out-of-range center when the radius is
\* positive: the error of encode for that center.
CenterError == encode(input.center.lat, input.center.lon, FALSE)

\* C14: find_nearby with radius_m <= 0 fails with InvalidLatitude carrying
\* the radius, whether or not the center is in range; with radius_m > 0 and
\* an out-of-range center it fails with the error encode gives for the
\* center.
C14_RadiusCheckedBeforeCenter ==
    (input.kind = "nearby" /\ pc # "find_nearby") =>
        /\ F64Le(input.radius, F64OfInt(0)) =>
               nearby = Err(InvalidLatitude(input.radius))
        /\ (F64Lt(F64OfInt(0), input.radius) /\ IsErr(CenterError)) =>
               nearby = CenterError

\* A call with a non-positive radius and a center whose longitude is out of
\* range: the error carries the radius, not the longitude.
C14_Witness ==
    /\ input.kind = "nearby" /\ pc = "done"
    /\ input.radius = F64OfInt(-1)
    /\ CenterError = Err(InvalidLongitude(F64OfInt(181)))
    /\ nearby = Err(InvalidLatitude(F64OfInt(-1)))

\* C15: find_nearby called with a valid center, a positive radius and
\* max_results >= 1 returns a non-empty list of valid 9-character tokens.
C15_NearbyNonEmpty ==
    ( /\ input.kind = "nearby" /\ pc = "done"
      /\ ValidLatitude(input.center.lat) /\ ValidLongitude(input.center.lon)
      /\ F64Lt(F64OfInt(0), input.radius)
      /\ input.max >= 1 ) =>
        /\ IsOk(nearby)
        /\ nearby.val # <<>>
        /\ \A i \in 1..Len(nearby.val) :
               Len(nearby.val[i]) = 9 /\ is_valid_encoding(nearby.val[i])

\* The token of the i-th coordinate of the input list.
CodeOf(i) == encode(input.list[i].lat, input.list[i].lon, input.human)

\* The coordinates of the input list whose token is code, in input order.
MembersOf(code) ==
    LET Keyed(coord) == encode(coord.lat, coord.lon, input.human) = Ok(code)
    IN  SelectSeq(input.list, Keyed)

\* The sum of the sizes of the groups with the given keys.
RECURSIVE SizeOf(_, _)
SizeOf(map, keys) ==
    IF keys = {} THEN 0
    ELSE LET code == CHOOSE c \in keys : TRUE
         IN  Len(map[code]) + SizeOf(map, keys \ {code})

\* C16: group_by_grid9 partitions its input: every coordinate is, with its
\* multiplicity, in exactly the group keyed by its token, the sizes of the
\* groups sum to the length of the input, no group is empty and the order
\* within a group is the input order; when a coordinate is invalid the call
\* fails with the error of encode for the first such coordinate and returns
\* no map.
C16_GroupsPartitionInput ==
    (input.kind = "coords" /\ groups # Unset) =>
        IF \A i \in 1..Len(input.list) : IsOk(CodeOf(i))
        THEN /\ IsOk(groups)
             /\ DOMAIN groups.val = {CodeOf(i).val : i \in 1..Len(input.list)}
             /\ \A code \in DOMAIN groups.val :
                    /\ groups.val[code] = MembersOf(code)
                    /\ groups.val[code] # <<>>
             /\ SizeOf(groups.val, DOMAIN groups.val) = Len(input.list)
        ELSE LET first == CHOOSE i \in 1..Len(input.list) :
                              /\ ~IsOk(CodeOf(i))
                              /\ \A j \in 1..(i - 1) : IsOk(CodeOf(j))
             IN  groups = CodeOf(first)

\* Two different coordinates of one cell, grouped under one key in input
\* order.
C16_Witness ==
    /\ input.kind = "coords" /\ IsOk(groups)
    /\ \E code \in DOMAIN groups.val :
           /\ Len(groups.val[code]) = 2
           /\ groups.val[code] = input.list
           /\ input.list[1] # input.list[2]

\* C17: format_for_humans never fails: a string that is not exactly 9
\* characters long is returned unchanged, and a string of exactly 9
\* characters gives the 11 characters made of its characters 1-3, '-',
\* characters 4-6, '-', characters 7-9.
C17_FormatForHumansTotal ==
    (input.kind = "str" /\ formatted # Unset) =>
        /\ IsOk(formatted)
        /\ Len(input.s) # 9 => formatted.val = input.s
        /\ Len(input.s) = 9 =>
               formatted.val = SubSeq(input.s, 1, 3) \o <<"-">>
                                 \o SubSeq(input.s, 4, 6) \o <<"-">>
                                 \o SubSeq(input.s, 7, 9)

\* C18: find_nearby terminates: for a valid center, a positive radius and
\* any max_results the scan ends and the call returns a result; each step of
\* the inner loop strictly increases lon and each step of the outer loop
\* strictly increases lat, by the scan step.
C18_FindNearbyTerminates ==
    /\ ( /\ input.kind = "nearby"
         /\ ValidLatitude(input.center.lat) /\ ValidLongitude(input.center.lon)
         /\ F64Lt(F64OfInt(0), input.radius) )
           ~> (pc = "done" /\ IsOk(nearby))
    /\ [][(pc = "scan_inner" /\ pc' = "scan_inner") =>
             /\ F64Lt(scan.lon, scan'.lon)
             /\ scan'.lat = scan.lat]_vars
    /\ [][(pc = "scan_inner" /\ pc' = "scan_outer") =>
             /\ F64Lt(scan.lat, scan'.lat)
             /\ scan'.lat = F64Add(scan.lat, F64DivInt(F64OfInt(3), 111320))]_vars

\* A scan that ends by leaving the range: the nine points of three rows were
\* scanned and the call returned.
C18_Witness ==
    /\ input.kind = "nearby" /\ pc = "done" /\ IsOk(nearby)
    /\ scan.scanned = 9
    /\ F64Lt(scan.max_lat, scan.lat)

\* C19: for every valid coordinate the quantized fields satisfy
\* 0 <= lat_bits <= 2^22 - 1 and 0 <= lon_bits <= 2^23 - 1, the maxima being
\* produced at lat = 90 and lon = 180, so that packed is below 2^45; the 9
\* symbols encode emits are folded by decode back into the same packed value,
\* and decode's mask and shift recover the same lat_bits and lon_bits.
C19_BitPackingRoundTrip ==
    (input.kind = "coord" /\ ValidCoordinate /\ encoded # Unset) =>
        LET lat_bits == Quantize(input.lat, 90, 180, LAT_MAX)
            lon_bits == Quantize(input.lon, 180, 360, LON_MAX)
            packed == Pack(lat_bits, lon_bits)
            folded == DecodeLoop(Cleaned(encoded.val), 9)
        IN  /\ 0 <= lat_bits /\ lat_bits <= LAT_MAX
            /\ 0 <= lon_bits /\ lon_bits <= LON_MAX
            /\ input.lat = F64OfInt(90) => lat_bits = LAT_MAX
            /\ input.lon = F64OfInt(180) => lon_bits = LON_MAX
            /\ U64Shr(packed, LAT_BITS + LON_BITS) = U64OfInt(0)
            /\ IsOk(encoded) /\ Len(Cleaned(encoded.val)) = 9
            /\ folded = Ok(packed)
            /\ UnpackLat(folded.val) = lat_bits
            /\ UnpackLon(folded.val) = lon_bits

\* The largest packed value, 2^45 - 1, of the coordinate (90, 180): its
\* token is nine times the last symbol and both fields come back.
C19_Witness ==
    /\ input.kind = "coord"
    /\ input.lat = F64OfInt(90) /\ input.lon = F64OfInt(180)
    /\ IsOk(encoded)
    /\ Cleaned(encoded.val) = <<"Z", "Z", "Z", "Z", "Z", "Z", "Z", "Z", "Z">>
    /\ UnpackLat(DecodeLoop(Cleaned(encoded.val), 9).val) = LAT_MAX
    /\ UnpackLon(DecodeLoop(Cleaned(encoded.val), 9).val) = LON_MAX

=============================================================================
